---- MODULE Spec2Model ----
(***************************************************************************)
(* Verification model of bk-hcm's resource reconciliation:                 *)
(*   - the AWS region sync driver (cmd/hc-service/logics/res-sync/aws),    *)
(*   - the SQL statement builder (pkg/dal/table),                          *)
(*   - the GCP firewall-rule adaptor (pkg/adaptor/gcp),                    *)
(*   - the Azure security-group handlers (cmd/hc-service/service).         *)
(***************************************************************************)
EXTENDS Integers, Sequences, FiniteSets, TLC

(***************************************************************************)
(* Bounds of the model.                                                    *)
(***************************************************************************)
\* passes of Region in a run, over all accounts
MaxPasses == 2
\* changes the cloud side makes to its region listing during a run
MaxCloudChanges == 1
\* failing calls to the cloud adaptor or the store during a run
MaxFailures == 1
\* records in an input of Diff taken on its own
DiffMaxLen == 2
\* entries in the Allowed or Denied list of a firewall rule
GcpMaxRules == 2
\* names in a declared InsertFields or UpdateFields list
TableMaxFields == 2
\* constant.CloudResourceSyncMaxLimit (region.go:189), scaled down
CloudResourceSyncMaxLimit == 2
\* core.DefaultMaxPageLimit (region.go:262), scaled down
DefaultMaxPageLimit == 2

Accounts == {"a1", "a2"}
RegionIDs == {"r1", "r2", "r3"}
RegionNames == {"n1", "n2"}
RegionStates == {"available", "unavailable"}
Endpoints == {"e1", "e2"}
Aws == "aws"

(***************************************************************************)
(* Generic helpers.                                                        *)
(***************************************************************************)
Range(s) == {s[i] : i \in DOMAIN s}

Min(a, b) == IF a < b THEN a ELSE b

\* the elements of S as a sequence, ascending by the rank function rk, which gives
\* the elements of S distinct ranks
SetToSeqBy(S, rk) ==
    [i \in 1..Cardinality(S) |->
        CHOOSE x \in S : Cardinality({y \in S : rk[y] < rk[x]}) = i - 1]

\* all orderings of a finite set, as sequences without repetition
Perms(S) == {s \in [1..Cardinality(S) -> S] : Range(s) = S}

RegionRank == [r \in RegionIDs |-> CASE r = "r1" -> 1 [] r = "r2" -> 2 [] OTHER -> 3]

(***************************************************************************)
(* Record shapes.                                                          *)
(***************************************************************************)
\* typesregion.AwsRegion: the cloud view of a region
AwsRegion(id, name, state, ep) ==
    [RegionID |-> id, RegionName |-> name, RegionState |-> state, Endpoint |-> ep]

\* cloudcore.AwsRegion: the store view of a region, with its surrogate key ID
DBRegion(id, acc, rid, name, status, ep) ==
    [ID |-> id, Vendor |-> Aws, AccountID |-> acc, RegionID |-> rid,
     RegionName |-> name, Status |-> status, Endpoint |-> ep]

(***************************************************************************)
(* isRegionChange (region.go:272-287).                                     *)
(***************************************************************************)
isRegionChangeAlways(cloud, db) == TRUE

isRegionChangeNoState(cloud, db) ==
    \/ cloud.RegionID # db.RegionID
    \/ cloud.RegionName # db.RegionName

isRegionChange(cloud, db) ==
    IF cloud.RegionID # db.RegionID THEN TRUE
    ELSE IF cloud.RegionName # db.RegionName THEN TRUE
    ELSE IF cloud.RegionState # db.Status THEN TRUE
    ELSE FALSE

(***************************************************************************)
(* common.Diff, as section 4.1 describes it: a lookup from the store-side  *)
(* cloud identifier to the store record; every cloud record is looked up,  *)
(* and the store identifiers never visited are the delete candidates.      *)
(***************************************************************************)
\* dbMap: the store record held under each cloud identifier (a later record
\* of the listing replaces an earlier one with the same identifier)
DiffDBMap(dataFromDB) ==
    [cid \in {dataFromDB[i].RegionID : i \in DOMAIN dataFromDB} |->
        dataFromDB[CHOOSE i \in DOMAIN dataFromDB :
            /\ dataFromDB[i].RegionID = cid
            /\ \A j \in DOMAIN dataFromDB : dataFromDB[j].RegionID = cid => j <= i]]

\* toCreate: the cloud records whose identifier the store lookup lacks
DiffAdd(dataFromCloud, dataFromDB) ==
    LET dbMap == DiffDBMap(dataFromDB)
    IN SelectSeq(dataFromCloud, LAMBDA c : c.RegionID \notin DOMAIN dbMap)

\* toUpdate: surrogate key |-> cloud record, for the matched pairs that changed
DiffUpdate(dataFromCloud, dataFromDB) ==
    LET dbMap == DiffDBMap(dataFromDB)
        hit == {i \in DOMAIN dataFromCloud :
                   /\ dataFromCloud[i].RegionID \in DOMAIN dbMap
                   /\ isRegionChange(dataFromCloud[i], dbMap[dataFromCloud[i].RegionID])}
    IN [k \in {dbMap[dataFromCloud[i].RegionID].ID : i \in hit} |->
           dataFromCloud[CHOOSE i \in hit :
               /\ dbMap[dataFromCloud[i].RegionID].ID = k
               /\ \A j \in hit : dbMap[dataFromCloud[j].RegionID].ID = k => j <= i]]

\* toDeleteCloudIDs: the store identifiers no cloud record visited
DiffDelSet(dataFromCloud, dataFromDB) ==
    DOMAIN DiffDBMap(dataFromDB) \ {dataFromCloud[i].RegionID : i \in DOMAIN dataFromCloud}

(***************************************************************************)
(* The store (data-service) as the driver sees it: a table of region       *)
(* records, read and written through filter expressions.                   *)
(***************************************************************************)
VARIABLES
    cloud,            \* cloud[a]: what cloudCli.ListRegion returns for account a now
    store,            \* the region table: a set of store records
    nextID,           \* the surrogate key the store hands out next
    pc,               \* pc[a]: where the pass of account a stands
    passes,           \* passes[a]: passes of Region started for a
    syncOpt,          \* syncOpt[a]: the SyncRegionOption of a's latest call
    regionFromCloud,  \* locals of Region, per pass
    regionFromDB,
    start,
    addSlice,
    updateMap,
    delCloudIDs,
    elems,            \* the delete batches not yet issued
    result,           \* what Region returned: "none", "ok" or the error
    calls,            \* calls[a]: the store write calls this pass issued, in order
    changes,          \* cloud-side changes so far
    failures,         \* failed collaborator calls so far
    failed,           \* failed[a]: a collaborator call of this pass failed
    curClean,         \* no outside change to a's cloud or store view since this pass began
    prevClean         \* the pass before this one succeeded, and nothing changed since it began

regionVars == <<cloud, store, nextID, pc, passes, syncOpt, regionFromCloud, regionFromDB, start,
                addSlice, updateMap, delCloudIDs, elems, result, calls, changes,
                failures, failed, curClean, prevClean>>

\* the value a filter rule reads from a store record
FieldOf(rec, field) ==
    CASE field = "vendor" -> rec.Vendor
      [] field = "account_id" -> rec.AccountID
      [] field = "region_id" -> rec.RegionID
      [] OTHER -> rec.ID

\* filter.AtomRule evaluated on a record
RuleMatch(rec, rule) ==
    IF rule.Op = "eq" THEN FieldOf(rec, rule.Field) = rule.Value
    ELSE FieldOf(rec, rule.Field) \in Range(rule.Value)

\* filter.Expression with Op And evaluated on a record
FilterMatch(rec, expr) == \A i \in DOMAIN expr.Rules : RuleMatch(rec, expr.Rules[i])

\* tools.ContainersExpression(field, values)
ContainersExpression(field, values) ==
    [Op |-> "and", Rules |-> <<[Field |-> field, Op |-> "in", Value |-> values]>>]

\* the filter of listRegionFromDB (region.go:233-247)
ListFilter(a) ==
    [Op |-> "and", Rules |-> <<[Field |-> "vendor", Op |-> "eq", Value |-> Aws],
                               [Field |-> "account_id", Op |-> "eq", Value |-> a]>>]

\* a delete filter that leaves out the candidates the cloud lists at the time
\* the statement runs
DeleteFilterRechecked(a, parts) ==
    ContainersExpression("region_id",
        SelectSeq(parts, LAMBDA r : r \notin {cloud[a][i].RegionID : i \in DOMAIN cloud[a]}))

\* the filter of one delete batch (region.go:191-193)
DeleteFilter(a, parts) == ContainersExpression("region_id", parts)

\* Store.ListRegion: the records matching the filter, ordered by id, one page
StoreList(expr, from) ==
    LET hit == {r \in store : FilterMatch(r, expr)}
        ids == {r.ID : r \in hit}
        byID == SetToSeqBy(hit, [r \in hit |-> r.ID])
    IN SubSeq(byID, from + 1, Min(from + DefaultMaxPageLimit, Len(byID)))

\* Store.BatchDelete: every record matching the filter goes
StoreDelete(expr) == {r \in store : ~FilterMatch(r, expr)}

\* Store.BatchCreate: one new record per request entry, with fresh surrogate keys
StoreCreate(regions) ==
    store \cup {DBRegion(nextID + i - 1, regions[i].AccountID, regions[i].RegionID,
                         regions[i].RegionName, regions[i].Status, regions[i].Endpoint)
                : i \in DOMAIN regions}

\* Store.BatchUpdate: the record with each entry's ID takes the entry's fields
StoreUpdate(regions) ==
    {IF \E i \in DOMAIN regions : regions[i].ID = r.ID
     THEN LET u == regions[CHOOSE i \in DOMAIN regions : regions[i].ID = r.ID]
          IN DBRegion(r.ID, u.AccountID, u.RegionID, u.RegionName, u.Status, u.Endpoint)
     ELSE r : r \in store}

\* the store view of account a
StoreOf(st, a) == {r \in st : r.AccountID = a}

(***************************************************************************)
(* Region (region.go:55-96) and the phases it calls, one action per call   *)
(* to a collaborator.                                                      *)
(***************************************************************************)
\* the candidates left in a single batch, whatever their number
SplitWhole(l, n) == <<l>>

RECURSIVE Split(_, _)
\* slice.Split: consecutive chunks of at most n elements
Split(l, n) ==
    IF Len(l) = 0 THEN <<>>
    ELSE IF Len(l) <= n THEN <<l>>
    ELSE <<SubSeq(l, 1, n)>> \o Split(SubSeq(l, n + 1, Len(l)), n)

NoRegions == <<>>
NoUpdates == [k \in {} |-> k]

\* SyncRegionOption (region.go:44-52); valid is what opt.Validate() finds
SyncRegionOption(a, valid) == [AccountID |-> a, valid |-> valid]

\* the locals of a pass before its first statement
ResetLocals(a) ==
    /\ regionFromCloud' = [regionFromCloud EXCEPT ![a] = NoRegions]
    /\ regionFromDB' = [regionFromDB EXCEPT ![a] = NoRegions]
    /\ start' = [start EXCEPT ![a] = 0]
    /\ addSlice' = [addSlice EXCEPT ![a] = NoRegions]
    /\ updateMap' = [updateMap EXCEPT ![a] = NoUpdates]
    /\ delCloudIDs' = [delCloudIDs EXCEPT ![a] = <<>>]
    /\ elems' = [elems EXCEPT ![a] = <<>>]

\* Region returns: err is "ok" for new(SyncResult), nil, and the error otherwise
Return(a, err) ==
    /\ pc' = [pc EXCEPT ![a] = "done"]
    /\ result' = [result EXCEPT ![a] = err]

\* a call of account a's pass to a collaborator fails
CallFails(a) ==
    /\ failures < MaxFailures
    /\ failures' = failures + 1
    /\ failed' = [failed EXCEPT ![a] = TRUE]

\* the accounts other than a whose store view the step from store to st changes
Disturbed(a, st) == {b \in Accounts \ {a} : StoreOf(st, b) # StoreOf(store, b)}

\* a store write of account a's pass that leaves the table as st
WriteStore(a, st) ==
    /\ store' = st
    /\ curClean' = [b \in Accounts |-> curClean[b] /\ b \notin Disturbed(a, st)]
    /\ prevClean' = [b \in Accounts |-> prevClean[b] /\ b \notin Disturbed(a, st)]

\* the phase that follows the delete phase (region.go:83-95)
AfterDelete(a) ==
    IF Len(addSlice[a]) > 0 THEN "create"
    ELSE IF DOMAIN updateMap[a] # {} THEN "update"
    ELSE "return"

\* the phase that follows the create phase (region.go:89-95)
AfterCreate(a) == IF DOMAIN updateMap[a] # {} THEN "update" ELSE "return"

\* move to phase ph, or return success when none is left
Goto(a, ph) ==
    IF ph = "return" THEN Return(a, "ok")
    ELSE /\ pc' = [pc EXCEPT ![a] = ph]
         /\ UNCHANGED result

\* Region is called for account a (region.go:55)
StartPass(a) ==
    /\ pc[a] \in {"idle", "done"}
    /\ passes["a1"] + passes["a2"] < MaxPasses
    /\ passes' = [passes EXCEPT ![a] = @ + 1]
    /\ \E valid \in BOOLEAN : syncOpt' = [syncOpt EXCEPT ![a] = SyncRegionOption(a, valid)]
    /\ pc' = [pc EXCEPT ![a] = "validate"]
    /\ result' = [result EXCEPT ![a] = "none"]
    /\ calls' = [calls EXCEPT ![a] = <<>>]
    /\ ResetLocals(a)
    /\ prevClean' = [prevClean EXCEPT ![a] = pc[a] = "done" /\ result[a] = "ok" /\ curClean[a]]
    /\ curClean' = [curClean EXCEPT ![a] = TRUE]
    /\ failed' = [failed EXCEPT ![a] = FALSE]
    /\ UNCHANGED <<cloud, store, nextID, changes, failures>>

\* Region is called for account a once more, after the passes the run counts:
\* the caller's retry, with a valid option
StartPassAgain(a) ==
    /\ pc[a] \in {"idle", "done"}
    /\ passes["a1"] + passes["a2"] >= MaxPasses
    /\ syncOpt' = [syncOpt EXCEPT ![a] = SyncRegionOption(a, TRUE)]
    /\ pc' = [pc EXCEPT ![a] = "validate"]
    /\ result' = [result EXCEPT ![a] = "none"]
    /\ calls' = [calls EXCEPT ![a] = <<>>]
    /\ ResetLocals(a)
    /\ prevClean' = [prevClean EXCEPT ![a] = pc[a] = "done" /\ result[a] = "ok" /\ curClean[a]]
    /\ curClean' = [curClean EXCEPT ![a] = TRUE]
    /\ failed' = [failed EXCEPT ![a] = FALSE]
    /\ UNCHANGED <<cloud, store, nextID, passes, changes, failures>>

\* opt.Validate(): an option that fails it ends the call (region.go:56-58)
ValidateOption(a) ==
    /\ pc[a] = "validate"
    /\ IF syncOpt[a].valid THEN pc' = [pc EXCEPT ![a] = "listCloud"] /\ UNCHANGED result
       ELSE Return(a, "InvalidParameter")
    /\ UNCHANGED <<cloud, store, nextID, passes, syncOpt, regionFromCloud, regionFromDB, start,
                   addSlice, updateMap, delCloudIDs, elems, calls, changes, failures,
                   failed, curClean, prevClean>>

\* listRegionFromCloud, the first fetch (region.go:60-63, 210-223)
ListCloud(a) ==
    /\ pc[a] = "listCloud"
    /\ \/ /\ regionFromCloud' = [regionFromCloud EXCEPT ![a] = cloud[a]]
          /\ pc' = [pc EXCEPT ![a] = "listDB"]
          /\ UNCHANGED <<result, failures, failed>>
       \/ /\ CallFails(a)
          /\ Return(a, "cloud list failed")
          /\ UNCHANGED regionFromCloud
    /\ UNCHANGED <<cloud, store, nextID, passes, syncOpt, regionFromDB, start, addSlice, updateMap,
                   delCloudIDs, elems, calls, changes, curClean, prevClean>>

\* the last-page test with a page of exactly the limit taken for the last
LastPageAtLimit(regions) == Len(regions) <= DefaultMaxPageLimit

\* the last-page test of listRegionFromDB (region.go:262)
LastPage(regions) == Len(regions) < DefaultMaxPageLimit

\* listRegionFromDB, one page request (region.go:250-267)
ListDB(a) ==
    /\ pc[a] = "listDB"
    /\ \/ LET regions == StoreList(ListFilter(a), start[a])
          IN /\ regionFromDB' = [regionFromDB EXCEPT ![a] = @ \o regions]
             /\ IF LastPage(regions)
                THEN pc' = [pc EXCEPT ![a] = "diff"] /\ UNCHANGED start
                ELSE start' = [start EXCEPT ![a] = @ + DefaultMaxPageLimit] /\ UNCHANGED pc
             /\ UNCHANGED <<result, failures, failed>>
       \/ /\ CallFails(a)
          /\ Return(a, "db list failed")
          /\ UNCHANGED <<regionFromDB, start>>
    /\ UNCHANGED <<cloud, store, nextID, passes, syncOpt, regionFromCloud, addSlice, updateMap,
                   delCloudIDs, elems, calls, changes, curClean, prevClean>>

\* the empty-views return and the call of common.Diff (region.go:70-81)
DiffStep(a) ==
    /\ pc[a] = "diff"
    /\ IF Len(regionFromCloud[a]) = 0 /\ Len(regionFromDB[a]) = 0
       THEN /\ Return(a, "ok")
            /\ UNCHANGED <<addSlice, updateMap, delCloudIDs>>
       ELSE \E del \in Perms(DiffDelSet(regionFromCloud[a], regionFromDB[a])) :
            /\ addSlice' = [addSlice EXCEPT ![a] = DiffAdd(regionFromCloud[a], regionFromDB[a])]
            /\ updateMap' = [updateMap EXCEPT ![a] =
                                 DiffUpdate(regionFromCloud[a], regionFromDB[a])]
            /\ delCloudIDs' = [delCloudIDs EXCEPT ![a] = del]
            /\ IF Len(del) > 0
               THEN pc' = [pc EXCEPT ![a] = "recheck"] /\ UNCHANGED result
               ELSE IF Len(DiffAdd(regionFromCloud[a], regionFromDB[a])) > 0
               THEN pc' = [pc EXCEPT ![a] = "create"] /\ UNCHANGED result
               ELSE IF DOMAIN DiffUpdate(regionFromCloud[a], regionFromDB[a]) # {}
               THEN pc' = [pc EXCEPT ![a] = "update"] /\ UNCHANGED result
               ELSE Return(a, "ok")
    /\ UNCHANGED <<cloud, store, nextID, passes, syncOpt, regionFromCloud, regionFromDB, start,
                   elems, calls, changes, failures, failed, curClean, prevClean>>

\* the re-check of deleteRegion found nothing, because it looked at nothing
RecheckFindsNever(delRegionFromCloud, ids) == FALSE

\* deleteRegion's re-check: a delete candidate is in the second listing (region.go:180-187)
RecheckFinds(delRegionFromCloud, ids) ==
    \E i \in DOMAIN delRegionFromCloud : delRegionFromCloud[i].RegionID \in Range(ids)

\* deleteRegion up to its loop: the second fetch and the re-check (region.go:170-189)
Recheck(a) ==
    /\ pc[a] = "recheck"
    /\ \/ /\ ~RecheckFinds(cloud[a], delCloudIDs[a])
          /\ elems' = [elems EXCEPT ![a] = Split(delCloudIDs[a], CloudResourceSyncMaxLimit)]
          /\ pc' = [pc EXCEPT ![a] = "delete"]
          /\ UNCHANGED <<result, failures, failed>>
       \/ /\ RecheckFinds(cloud[a], delCloudIDs[a])
          /\ Return(a, "validate region not exist failed")
          /\ UNCHANGED <<elems, failures, failed>>
       \/ /\ CallFails(a)
          /\ Return(a, "cloud list failed")
          /\ UNCHANGED elems
    /\ UNCHANGED <<cloud, store, nextID, passes, syncOpt, regionFromCloud, regionFromDB, start,
                   addSlice, updateMap, delCloudIDs, calls, changes, curClean, prevClean>>

\* one entry of calls: a store write call, its argument, and whether it succeeded
Call(op, arg, ok) == [op |-> op, arg |-> arg, ok |-> ok]

\* deleteRegion's loop with a failed batch logged and skipped instead of returned
DeleteBatchSwallow(a) ==
    /\ pc[a] = "delete"
    /\ LET parts == Head(elems[a])
       IN /\ \/ /\ WriteStore(a, StoreDelete(DeleteFilter(a, parts)))
                /\ calls' = [calls EXCEPT ![a] = Append(@, Call("delete", parts, TRUE))]
                /\ UNCHANGED <<failures, failed>>
             \/ /\ CallFails(a)
                /\ calls' = [calls EXCEPT ![a] = Append(@, Call("delete", parts, FALSE))]
                /\ UNCHANGED <<store, curClean, prevClean>>
          /\ elems' = [elems EXCEPT ![a] = Tail(@)]
          /\ IF Len(elems[a]) = 1 THEN Goto(a, AfterDelete(a))
             ELSE UNCHANGED <<pc, result>>
    /\ UNCHANGED <<cloud, nextID, passes, syncOpt, regionFromCloud, regionFromDB, start, addSlice,
                   updateMap, delCloudIDs, changes>>

\* deleteRegion's loop, one batch (region.go:190-202)
DeleteBatch(a) ==
    /\ pc[a] = "delete"
    /\ LET parts == Head(elems[a])
       IN \/ /\ WriteStore(a, StoreDelete(DeleteFilter(a, parts)))
             /\ calls' = [calls EXCEPT ![a] = Append(@, Call("delete", parts, TRUE))]
             /\ elems' = [elems EXCEPT ![a] = Tail(@)]
             /\ IF Len(elems[a]) = 1 THEN Goto(a, AfterDelete(a))
                ELSE UNCHANGED <<pc, result>>
             /\ UNCHANGED <<failures, failed>>
          \/ /\ CallFails(a)
             /\ calls' = [calls EXCEPT ![a] = Append(@, Call("delete", parts, FALSE))]
             /\ Return(a, "delete failed")
             /\ UNCHANGED <<store, elems, curClean, prevClean>>
    /\ UNCHANGED <<cloud, nextID, passes, syncOpt, regionFromCloud, regionFromDB, start, addSlice,
                   updateMap, delCloudIDs, changes>>

\* the request of createRegion with AccountID left at its zero value
CreateResourcesNoAccount(a) ==
    [i \in DOMAIN addSlice[a] |->
        [Vendor |-> Aws, AccountID |-> "", RegionID |-> addSlice[a][i].RegionID,
         RegionName |-> addSlice[a][i].RegionName, Status |-> addSlice[a][i].RegionState,
         Endpoint |-> addSlice[a][i].Endpoint]]

\* the request of createRegion (region.go:105-121)
CreateResources(a) ==
    [i \in DOMAIN addSlice[a] |->
        [Vendor |-> Aws, AccountID |-> a, RegionID |-> addSlice[a][i].RegionID,
         RegionName |-> addSlice[a][i].RegionName, Status |-> addSlice[a][i].RegionState,
         Endpoint |-> addSlice[a][i].Endpoint]]

\* createRegion (region.go:98-132)
CreateRegion(a) ==
    /\ pc[a] = "create"
    /\ \/ /\ WriteStore(a, StoreCreate(CreateResources(a)))
          /\ nextID' = nextID + Len(CreateResources(a))
          /\ calls' = [calls EXCEPT ![a] = Append(@, Call("create", CreateResources(a), TRUE))]
          /\ Goto(a, AfterCreate(a))
          /\ UNCHANGED <<failures, failed>>
       \/ /\ CallFails(a)
          /\ calls' = [calls EXCEPT ![a] = Append(@, Call("create", CreateResources(a), FALSE))]
          /\ Return(a, "create failed")
          /\ UNCHANGED <<store, nextID, curClean, prevClean>>
    /\ UNCHANGED <<cloud, passes, syncOpt, regionFromCloud, regionFromDB, start, addSlice, updateMap,
                   delCloudIDs, elems, changes>>

\* the request of updateRegion with Status left at its zero value
UpdateResourcesNoStatus(a) ==
    LET keys == SetToSeqBy(DOMAIN updateMap[a], [k \in DOMAIN updateMap[a] |-> k])
    IN [i \in DOMAIN keys |->
           [ID |-> keys[i], AccountID |-> a, RegionID |-> updateMap[a][keys[i]].RegionID,
            RegionName |-> updateMap[a][keys[i]].RegionName,
            Status |-> "",
            Endpoint |-> updateMap[a][keys[i]].Endpoint]]

\* the request of updateRegion (region.go:141-157), its entries by surrogate key
UpdateResources(a) ==
    LET keys == SetToSeqBy(DOMAIN updateMap[a], [k \in DOMAIN updateMap[a] |-> k])
    IN [i \in DOMAIN keys |->
           [ID |-> keys[i], AccountID |-> a, RegionID |-> updateMap[a][keys[i]].RegionID,
            RegionName |-> updateMap[a][keys[i]].RegionName,
            Status |-> updateMap[a][keys[i]].RegionState,
            Endpoint |-> updateMap[a][keys[i]].Endpoint]]

\* updateRegion (region.go:134-168)
UpdateRegion(a) ==
    /\ pc[a] = "update"
    /\ \/ /\ WriteStore(a, StoreUpdate(UpdateResources(a)))
          /\ calls' = [calls EXCEPT ![a] = Append(@, Call("update", UpdateResources(a), TRUE))]
          /\ Return(a, "ok")
          /\ UNCHANGED <<failures, failed>>
       \/ /\ CallFails(a)
          /\ calls' = [calls EXCEPT ![a] = Append(@, Call("update", UpdateResources(a), FALSE))]
          /\ Return(a, "update failed")
          /\ UNCHANGED <<store, curClean, prevClean>>
    /\ UNCHANGED <<cloud, nextID, passes, syncOpt, regionFromCloud, regionFromDB, start, addSlice,
                   updateMap, delCloudIDs, elems, changes>>

(***************************************************************************)
(* The cloud side: regions appear, disappear and change behind the pass.   *)
(***************************************************************************)
CloudChange(a) ==
    /\ changes < MaxCloudChanges
    /\ pc[a] \in {"recheck", "delete", "done"}
    /\ changes' = changes + 1
    /\ \/ \E r \in RegionIDs \ {cloud[a][i].RegionID : i \in DOMAIN cloud[a]} :
             cloud' = [cloud EXCEPT ![a] = Append(@, AwsRegion(r, "n1", "available", "e1"))]
       \/ \E i \in DOMAIN cloud[a] :
             cloud' = [cloud EXCEPT ![a] =
                          SubSeq(@, 1, i - 1) \o SubSeq(@, i + 1, Len(@))]
       \/ \E i \in DOMAIN cloud[a], n \in RegionNames :
             /\ n # cloud[a][i].RegionName
             /\ cloud' = [cloud EXCEPT ![a][i] =
                             AwsRegion(@.RegionID, n, @.RegionState, @.Endpoint)]
    /\ curClean' = [curClean EXCEPT ![a] = FALSE]
    /\ prevClean' = [prevClean EXCEPT ![a] = FALSE]
    /\ UNCHANGED <<store, nextID, pc, passes, syncOpt, regionFromCloud, regionFromDB, start, addSlice,
                   updateMap, delCloudIDs, elems, result, calls, failures, failed>>

(***************************************************************************)
(* Initial states: each account's cloud listing and store view hold each   *)
(* cloud identifier at most once.                                          *)
(***************************************************************************)
\* the region ids account a uses in the initial states
InitIDs(a) == IF a = "a1" THEN RegionIDs ELSE {"r1"}

\* a cloud listing of the regions ids, in the order of RegionRank
InitCloud(ids) ==
    LET sorted == SetToSeqBy(ids, RegionRank)
    IN [i \in DOMAIN sorted |-> AwsRegion(sorted[i], "n1", "available", "e1")]

\* the store records of account a for the names f gives ("-": no record),
\* with the surrogate keys base+1, base+2, ...
InitStore(a, f, base) ==
    LET ids == {r \in InitIDs(a) : f[r] # "-"}
        sorted == SetToSeqBy(ids, RegionRank)
    IN {DBRegion(base + i, a, sorted[i], f[sorted[i]], "available", "e1") : i \in DOMAIN sorted}

RegionInit ==
    /\ \E c1 \in SUBSET InitIDs("a1"), c2 \in SUBSET InitIDs("a2") :
          cloud = [a \in Accounts |-> IF a = "a1" THEN InitCloud(c1) ELSE InitCloud(c2)]
    /\ \E f1 \in [InitIDs("a1") -> {"-"} \cup RegionNames],
          f2 \in [InitIDs("a2") -> {"-", "n1"}] :
          LET s1 == InitStore("a1", f1, 0)
          IN /\ store = s1 \cup InitStore("a2", f2, Cardinality(s1))
             /\ nextID = Cardinality(s1 \cup InitStore("a2", f2, Cardinality(s1))) + 1
    /\ pc = [a \in Accounts |-> "idle"]
    /\ passes = [a \in Accounts |-> 0]
    /\ syncOpt = [a \in Accounts |-> SyncRegionOption(a, TRUE)]
    /\ regionFromCloud = [a \in Accounts |-> NoRegions]
    /\ regionFromDB = [a \in Accounts |-> NoRegions]
    /\ start = [a \in Accounts |-> 0]
    /\ addSlice = [a \in Accounts |-> NoRegions]
    /\ updateMap = [a \in Accounts |-> NoUpdates]
    /\ delCloudIDs = [a \in Accounts |-> <<>>]
    /\ elems = [a \in Accounts |-> <<>>]
    /\ result = [a \in Accounts |-> "none"]
    /\ calls = [a \in Accounts |-> <<>>]
    /\ changes = 0
    /\ failures = 0
    /\ failed = [a \in Accounts |-> FALSE]
    /\ curClean = [a \in Accounts |-> FALSE]
    /\ prevClean = [a \in Accounts |-> FALSE]

(***************************************************************************)
(* Diff on its own: the inputs are drawn from the listings of at most      *)
(* DiffMaxLen records that hold each cloud identifier once.                *)
(***************************************************************************)
VARIABLES
    dCloud,   \* dataFromCloud
    dDB,      \* dataFromDB
    dOut      \* what Diff returned for them, once set

diffVars == <<dCloud, dDB, dOut>>

NoDiff == [set |-> FALSE, add |-> <<>>, update |-> <<>>, del |-> {}]

UniqueIDs(l) == \A i, j \in DOMAIN l : l[i].RegionID = l[j].RegionID => i = j

DiffCloudInputs(ep) ==
    {l \in UNION {[1..k -> {AwsRegion(r, n, st, ep) :
                               r \in RegionIDs, n \in RegionNames, st \in RegionStates}]
                  : k \in 0..DiffMaxLen} : UniqueIDs(l)}

DiffDBInputs ==
    {[i \in DOMAIN l |-> DBRegion(i, "a1", l[i].RegionID, l[i].RegionName,
                                  l[i].RegionState, "e1")] : l \in DiffCloudInputs("e1")}

DiffInit ==
    /\ \E ep \in Endpoints : dCloud \in DiffCloudInputs(ep)
    /\ dDB \in DiffDBInputs
    /\ dOut = NoDiff

\* addSlice, updateMap, delCloudIDs := common.Diff(dCloud, dDB, isRegionChange)
DiffApply ==
    /\ ~dOut.set
    /\ dOut' = [set |-> TRUE, add |-> DiffAdd(dCloud, dDB),
                update |-> DiffUpdate(dCloud, dDB), del |-> DiffDelSet(dCloud, dDB)]
    /\ UNCHANGED <<dCloud, dDB>>

DiffIdle == dCloud = <<>> /\ dDB = <<>> /\ dOut = NoDiff

(***************************************************************************)
(* The GCP firewall-rule adaptor (pkg/adaptor/gcp/firewall_rule.go). Each  *)
(* method is one action; the option, the outcome of building the client    *)
(* and the outcome of the provider call are its inputs.                    *)
(***************************************************************************)
VARIABLES
    gcp    \* the adaptor call made: its option, the provider calls, the return value

gcpVars == <<gcp>>

GcpRule == [Protocol : {"tcp", "udp"}, Port : {<<"80">>, <<"443">>}]

GcpRuleLists == UNION {[1..k -> GcpRule] : k \in 0..GcpMaxRules}

\* a nil option pointer
GcpNilOption ==
    [nil |-> TRUE, valid |-> FALSE, CloudID |-> "", Allowed |-> <<>>, Denied |-> <<>>]

\* firewallrule.UpdateOption; valid is what opt.Validate() finds
GcpUpdateOptions ==
    {[nil |-> FALSE, valid |-> v, CloudID |-> "fw1", Allowed |-> al, Denied |-> de] :
        v \in BOOLEAN, al \in GcpRuleLists, de \in GcpRuleLists}

\* firewallrule.DeleteOption and firewallrule.ListOption
GcpPlainOptions ==
    {[nil |-> FALSE, valid |-> v, CloudID |-> "fw1", Allowed |-> <<>>, Denied |-> <<>>] :
        v \in BOOLEAN}

\* a slice of the request: nil, or made with the entries
GcpNilSlice == [isNil |-> TRUE, items |-> <<>>]
GcpSlice(items) == [isNil |-> FALSE, items |-> items]

GcpNoRequest == [Allowed |-> GcpNilSlice, Denied |-> GcpNilSlice]

GcpIdle == [op |-> "none", opt |-> GcpNilOption, called |-> <<>>, request |-> GcpNoRequest,
            failed |-> FALSE, ret |-> "nil"]

\* what a method did: the provider calls in order, the request body, whether a
\* provider call failed, and the error returned ("nil" for none)
GcpOutcome(op, opt, called, request, callFailed, ret) ==
    [op |-> op, opt |-> opt, called |-> called, request |-> request,
     failed |-> callFailed, ret |-> ret]

\* the compute.Firewall of UpdateFirewallRule (firewall_rule.go:82-112)
GcpUpdateRequest(opt) ==
    [Allowed |-> IF Len(opt.Allowed) # 0
                 THEN GcpSlice([i \in DOMAIN opt.Allowed |->
                          [IPProtocol |-> opt.Allowed[i].Protocol, Ports |-> opt.Allowed[i].Port]])
                 ELSE GcpNilSlice,
     Denied |-> IF Len(opt.Denied) # 0
                THEN GcpSlice([i \in DOMAIN opt.Allowed |->
                          [IPProtocol |-> opt.Allowed[i].Protocol, Ports |-> opt.Allowed[i].Port]])
                ELSE GcpNilSlice]

\* UpdateFirewallRule (firewall_rule.go:68-121)
UpdateFirewallRuleRun(opt, clientErr, patchErr) ==
    IF opt.nil THEN GcpOutcome("update", opt, <<>>, GcpNoRequest, FALSE, "InvalidParameter")
    ELSE IF ~opt.valid
    THEN GcpOutcome("update", opt, <<>>, GcpNoRequest, FALSE, "InvalidParameter")
    ELSE IF clientErr
    THEN GcpOutcome("update", opt, <<"computeClient">>, GcpNoRequest, TRUE, "client failed")
    ELSE GcpOutcome("update", opt, <<"computeClient", "Firewalls.Patch">>,
                    GcpUpdateRequest(opt), patchErr, "nil")

\* DeleteFirewallRule (firewall_rule.go:125-145)
DeleteFirewallRuleRun(opt, clientErr, deleteErr) ==
    IF opt.nil THEN GcpOutcome("delete", opt, <<>>, GcpNoRequest, FALSE, "InvalidParameter")
    ELSE IF ~opt.valid
    THEN GcpOutcome("delete", opt, <<>>, GcpNoRequest, FALSE, "InvalidParameter")
    ELSE IF clientErr
    THEN GcpOutcome("delete", opt, <<"computeClient">>, GcpNoRequest, TRUE, "client failed")
    ELSE GcpOutcome("delete", opt, <<"computeClient", "Firewalls.Delete">>,
                    GcpNoRequest, deleteErr, "nil")

\* ListFirewallRule (firewall_rule.go:34-64)
ListFirewallRuleRun(opt, clientErr, listErr) ==
    IF opt.nil THEN GcpOutcome("list", opt, <<>>, GcpNoRequest, FALSE, "InvalidParameter")
    ELSE IF ~opt.valid
    THEN GcpOutcome("list", opt, <<>>, GcpNoRequest, FALSE, "InvalidParameter")
    ELSE IF clientErr
    THEN GcpOutcome("list", opt, <<"computeClient">>, GcpNoRequest, TRUE, "client failed")
    ELSE GcpOutcome("list", opt, <<"computeClient", "Firewalls.List">>, GcpNoRequest,
                    listErr, IF listErr THEN "list failed" ELSE "nil")

UpdateFirewallRule ==
    /\ gcp.op = "none"
    /\ \E opt \in GcpUpdateOptions \cup {GcpNilOption}, clientErr \in BOOLEAN, patchErr \in BOOLEAN :
          gcp' = UpdateFirewallRuleRun(opt, clientErr, patchErr)

DeleteFirewallRule ==
    /\ gcp.op = "none"
    /\ \E opt \in GcpPlainOptions \cup {GcpNilOption}, clientErr \in BOOLEAN, deleteErr \in BOOLEAN :
          gcp' = DeleteFirewallRuleRun(opt, clientErr, deleteErr)

ListFirewallRule ==
    /\ gcp.op = "none"
    /\ \E opt \in GcpPlainOptions \cup {GcpNilOption}, clientErr \in BOOLEAN, listErr \in BOOLEAN :
          gcp' = ListFirewallRuleRun(opt, clientErr, listErr)

GcpInit == gcp = GcpIdle

(***************************************************************************)
(* The SQL statement builder (pkg/dal/table/table.go). A record type is    *)
(* its table name and its db-tagged fields in declaration order.           *)
(***************************************************************************)
VARIABLES
    tType,          \* the record type t
    tInsertFields,  \* tm.InsertFields
    tUpdateFields,  \* tm.UpdateFields
    tWhere,         \* what expr.SQLWhereExpr gives for the filter passed in
    tOut            \* what the builder called gave back

tableVars == <<tType, tInsertFields, tUpdateFields, tWhere, tOut>>

\* table.go:32
updateTimeField == "updated_at"

TableTypes ==
    {[name |-> "region", fields |-> <<"id", "name", "memo", "updated_at">>],
     [name |-> "region", fields |-> <<"id", "name", "memo">>]}

\* names a field list may declare
TableFieldNames == {"id", "name", "memo", "updated_at", "bogus"}

\* the field lists of at most TableMaxFields names, no name twice
TableFieldLists ==
    {l \in UNION {[1..k -> TableFieldNames] : k \in 0..TableMaxFields} :
        \A i, j \in DOMAIN l : l[i] = l[j] => i = j}

\* the outcomes of SQLWhereExpr on the filter expression
TableWheres == {[err |-> FALSE, sql |-> "WHERE id = :id"], [err |-> TRUE, sql |-> ""]}

\* the value the record holds in the field with db tag f
TableValue(f) == "value of " \o f

RECURSIVE Join(_, _)
\* strings.Join
Join(l, sep) ==
    IF Len(l) = 0 THEN ""
    ELSE IF Len(l) = 1 THEN l[1]
    ELSE l[1] \o sep \o Join(Tail(l), sep)

\* slice.StringInSlice
StringInSlice(x, l) == x \in Range(l)

\* slice.Remove: l without item
Remove(l, item) == SelectSeq(l, LAMBDA x : x # item)

\* ListTableFields (table.go:190-200)
ListTableFields(t) == t.fields

\* listModelFields (table.go:174-176)
listModelFields(t) == ListTableFields(t)

\* what a builder gave back: a panic, an error, or the statement or field values;
\* cols are the column names written into the statement as text, in order, and
\* set the assignments of its SET clause
TableOut(op, panic, err, sql, kv, cols, set) ==
    [op |-> op, panic |-> panic, err |-> err, sql |-> sql, kv |-> kv,
     cols |-> cols, set |-> set]

TableNoKV == [f \in {} |-> ""]

TableIdle == TableOut("none", FALSE, FALSE, "", TableNoKV, <<>>, <<>>)

\* listInsertFields with the declared InsertFields never looked at
listInsertFieldsAll(insertFields, t) == [panic |-> FALSE, fields |-> listModelFields(t)]

\* listInsertFields (table.go:154-171): the columns, or a panic
listInsertFields(insertFields, t) ==
    IF Len(insertFields) = 0 THEN [panic |-> FALSE, fields |-> listModelFields(t)]
    ELSE IF \E i \in DOMAIN insertFields : ~StringInSlice(insertFields[i], listModelFields(t))
    THEN [panic |-> TRUE, fields |-> <<>>]
    ELSE [panic |-> FALSE, fields |-> insertFields]

\* SQLForInsert (table.go:56-72)
SQLForInsertRun(insertFields, t) ==
    LET listed == listInsertFields(insertFields, t)
        cols == Remove(listed.fields, "id")
        fieldsWithColon == [i \in DOMAIN cols |-> ":" \o cols[i]]
    IN IF listed.panic THEN TableOut("insert", TRUE, FALSE, "", TableNoKV, <<>>, <<>>)
       ELSE TableOut("insert", FALSE, FALSE,
                     "INSERT INTO " \o t.name \o " (" \o Join(cols, ", ") \o ") VALUES ("
                         \o Join(fieldsWithColon, ", ") \o ")",
                     TableNoKV, cols, <<>>)

\* FieldKVForUpdate (table.go:95-121): the field values, or a panic
FieldKVForUpdateRun(updateFieldsDeclared, t) ==
    LET modelFields == listModelFields(t)
        updateFields == Remove(updateFieldsDeclared, updateTimeField)
    IN IF \E i \in DOMAIN updateFields : ~StringInSlice(updateFields[i], modelFields)
       THEN TableOut("kv", TRUE, FALSE, "", TableNoKV, <<>>, <<>>)
       ELSE TableOut("kv", FALSE, FALSE, "", [f \in Range(updateFields) |-> TableValue(f)],
                     <<>>, <<>>)

\* SQLForUpdate (table.go:75-92); order is the order the map of field values
\* is ranged over
SQLForUpdateRun(updateFieldsDeclared, t, where, order) ==
    LET kv == FieldKVForUpdateRun(updateFieldsDeclared, t)
        fromKV == [i \in DOMAIN order |-> order[i] \o " = :" \o order[i]]
        setFields == IF StringInSlice(updateTimeField, listModelFields(t))
                     THEN Append(fromKV, updateTimeField \o " = now()")
                     ELSE fromKV
        written == IF StringInSlice(updateTimeField, listModelFields(t))
                   THEN Append(order, updateTimeField)
                   ELSE order
    IN IF where.err THEN TableOut("update", FALSE, TRUE, "", TableNoKV, <<>>, <<>>)
       ELSE IF kv.panic THEN TableOut("update", TRUE, FALSE, "", TableNoKV, <<>>, <<>>)
       ELSE TableOut("update", FALSE, FALSE,
                     "UPDATE " \o t.name \o " set " \o Join(setFields, ", ") \o " " \o where.sql,
                     TableNoKV, written, setFields)

\* what opt.Page is, and what Page.SQLExpr gives for it with the default sort by id
TablePages ==
    {[nil |-> TRUE, err |-> FALSE, sql |-> ""],
     [nil |-> FALSE, err |-> TRUE, sql |-> ""],
     [nil |-> FALSE, err |-> FALSE, sql |-> "ORDER BY id LIMIT 2 OFFSET 0"]}

\* SQLForList (table.go:124-141); fields is opt.Fields
SQLForListRun(fields, t, where, page) ==
    LET pageExpr == IF page.nil THEN "" ELSE page.sql
    IN IF where.err THEN TableOut("list", FALSE, TRUE, "", TableNoKV, <<>>, <<>>)
       ELSE IF ~page.nil /\ page.err
       THEN TableOut("list", FALSE, TRUE, "", TableNoKV, <<>>, <<>>)
       ELSE TableOut("list", FALSE, FALSE,
                     "SELECT " \o Join(fields, ", ") \o " FROM " \o t.name \o " "
                         \o where.sql \o " " \o pageExpr,
                     TableNoKV, fields, <<>>)

\* SQLForDelete (table.go:144-151)
SQLForDeleteRun(t, where) ==
    IF where.err THEN TableOut("delete", FALSE, TRUE, "", TableNoKV, <<>>, <<>>)
    ELSE TableOut("delete", FALSE, FALSE, "DELETE FROM " \o t.name \o " " \o where.sql,
                  TableNoKV, <<>>, <<>>)

SQLForInsert ==
    /\ tOut.op = "none"
    /\ tOut' = SQLForInsertRun(tInsertFields, tType)
    /\ UNCHANGED <<tType, tInsertFields, tUpdateFields, tWhere>>

FieldKVForUpdate ==
    /\ tOut.op = "none"
    /\ tOut' = FieldKVForUpdateRun(tUpdateFields, tType)
    /\ UNCHANGED <<tType, tInsertFields, tUpdateFields, tWhere>>

SQLForUpdate ==
    /\ tOut.op = "none"
    /\ LET kv == FieldKVForUpdateRun(tUpdateFields, tType)
       IN \E order \in Perms(DOMAIN kv.kv) :
             tOut' = SQLForUpdateRun(tUpdateFields, tType, tWhere, order)
    /\ UNCHANGED <<tType, tInsertFields, tUpdateFields, tWhere>>

SQLForList ==
    /\ tOut.op = "none"
    /\ \E fields \in TableFieldLists, page \in TablePages :
          tOut' = SQLForListRun(fields, tType, tWhere, page)
    /\ UNCHANGED <<tType, tInsertFields, tUpdateFields, tWhere>>

SQLForDelete ==
    /\ tOut.op = "none"
    /\ tOut' = SQLForDeleteRun(tType, tWhere)
    /\ UNCHANGED <<tType, tInsertFields, tUpdateFields, tWhere>>

TableInit ==
    /\ tType \in TableTypes
    /\ tInsertFields \in TableFieldLists
    /\ tUpdateFields \in TableFieldLists
    /\ tWhere \in TableWheres
    /\ tOut = TableIdle

\* the builder at rest, for the specifications that do not run it
TableRest ==
    /\ tType = [name |-> "region", fields |-> <<"id", "name", "memo", "updated_at">>]
    /\ tInsertFields = <<>>
    /\ tUpdateFields = <<>>
    /\ tWhere = [err |-> FALSE, sql |-> "WHERE id = :id"]
    /\ tOut = TableIdle

(***************************************************************************)
(* The Azure security-group handlers (azure_security_group.go). A handler  *)
(* is one action; its request and the collaborator call that fails, if     *)
(* any, are its inputs.                                                     *)
(***************************************************************************)
VARIABLES
    az    \* the handler call made: its request, the collaborator calls, the return value

azureVars == <<az>>

AzureNames == {"", "sg1", "sg2"}

\* a request: the path parameter id, whether the body decodes and validates, its Name
AzureRequests ==
    [id : {"", "id1"}, decodes : BOOLEAN, valid : BOOLEAN, Name : AzureNames]

AzureOutcome(op, req, failAt, called, callFailed, ret) ==
    [op |-> op, req |-> req, failAt |-> failAt, called |-> called,
     failed |-> callFailed, ret |-> ret]

AzureIdle ==
    AzureOutcome("none", [id |-> "", decodes |-> FALSE, valid |-> FALSE, Name |-> ""],
                 0, <<>>, FALSE, "nil")

\* the collaborator calls of a handler run in order; each call site returns the
\* call's error, so the calls stop at call number failAt (0: none fails)
AzureCalls(op, req, failAt, plan) ==
    IF failAt \in DOMAIN plan
    THEN AzureOutcome(op, req, failAt, SubSeq(plan, 1, failAt), TRUE,
                      plan[failAt] \o " failed")
    ELSE AzureOutcome(op, req, failAt, plan, FALSE, "nil")

\* CreateAzureSecurityGroup (azure_security_group.go:34-86)
CreateAzureSecurityGroupRun(req, failAt) ==
    IF ~req.decodes THEN AzureOutcome("create", req, failAt, <<>>, FALSE, "DecodeRequestFailed")
    ELSE IF ~req.valid THEN AzureOutcome("create", req, failAt, <<>>, FALSE, "InvalidParameter")
    ELSE AzureCalls("create", req, failAt,
                    <<"ad.Azure", "client.CreateSecurityGroup",
                      "dataCli.BatchCreateSecurityGroup">>)

\* DeleteAzureSecurityGroup without the test of the id
DeleteAzureSecurityGroupRunNoCheck(req, failAt) ==
    AzureCalls("delete", req, failAt,
               <<"dataCli.GetSecurityGroup", "ad.Azure", "client.DeleteSecurityGroup",
                 "dataCli.BatchDeleteSecurityGroup">>)

\* DeleteAzureSecurityGroup (azure_security_group.go:89-128)
DeleteAzureSecurityGroupRun(req, failAt) ==
    IF Len(req.id) = 0 THEN AzureOutcome("delete", req, failAt, <<>>, FALSE, "InvalidParameter")
    ELSE AzureCalls("delete", req, failAt,
                    <<"dataCli.GetSecurityGroup", "ad.Azure", "client.DeleteSecurityGroup",
                      "dataCli.BatchDeleteSecurityGroup">>)

\* UpdateAzureSecurityGroup writing the store before it renames the group in the cloud
UpdateAzureSecurityGroupRunStoreFirst(req, failAt) ==
    IF Len(req.id) = 0 THEN AzureOutcome("update", req, failAt, <<>>, FALSE, "InvalidParameter")
    ELSE IF ~req.decodes THEN AzureOutcome("update", req, failAt, <<>>, FALSE, "DecodeRequestFailed")
    ELSE IF ~req.valid THEN AzureOutcome("update", req, failAt, <<>>, FALSE, "InvalidParameter")
    ELSE IF Len(req.Name) # 0
    THEN AzureCalls("update", req, failAt,
                    <<"dataCli.BatchUpdateSecurityGroup", "dataCli.GetSecurityGroup",
                      "ad.Azure", "client.UpdateSecurityGroup">>)
    ELSE AzureCalls("update", req, failAt, <<"dataCli.BatchUpdateSecurityGroup">>)

\* UpdateAzureSecurityGroup (azure_security_group.go:131-190)
UpdateAzureSecurityGroupRun(req, failAt) ==
    IF Len(req.id) = 0 THEN AzureOutcome("update", req, failAt, <<>>, FALSE, "InvalidParameter")
    ELSE IF ~req.decodes THEN AzureOutcome("update", req, failAt, <<>>, FALSE, "DecodeRequestFailed")
    ELSE IF ~req.valid THEN AzureOutcome("update", req, failAt, <<>>, FALSE, "InvalidParameter")
    ELSE IF Len(req.Name) # 0
    THEN AzureCalls("update", req, failAt,
                    <<"dataCli.GetSecurityGroup", "ad.Azure", "client.UpdateSecurityGroup",
                      "dataCli.BatchUpdateSecurityGroup">>)
    ELSE AzureCalls("update", req, failAt, <<"dataCli.BatchUpdateSecurityGroup">>)

CreateAzureSecurityGroup ==
    /\ az.op = "none"
    /\ \E req \in AzureRequests, failAt \in 0..3 : az' = CreateAzureSecurityGroupRun(req, failAt)

DeleteAzureSecurityGroup ==
    /\ az.op = "none"
    /\ \E req \in AzureRequests, failAt \in 0..4 : az' = DeleteAzureSecurityGroupRun(req, failAt)

UpdateAzureSecurityGroup ==
    /\ az.op = "none"
    /\ \E req \in AzureRequests, failAt \in 0..4 : az' = UpdateAzureSecurityGroupRun(req, failAt)

(***************************************************************************)
(* SyncAzureSecurityGroup (azure_security_group.go:193-347). The cloud and *)
(* the store listings it would fetch are inputs of the action; the helpers *)
(* that are not in this file are taken as section 4.2 describes the diff.  *)
(***************************************************************************)
AzureGroupIDs == {"g1", "g2", "g3"}
AzureGroupNames == {"sg1", "sg2"}

\* yunMap: cloud id |-> the group's name, for the groups the cloud lists
AzureYunMaps == UNION {[ids -> AzureGroupNames] : ids \in SUBSET AzureGroupIDs}

\* the surrogate key of the store record of cloud id g
AzureStoreID(g) == "id-" \o g

\* dsMap: cloud id |-> the store's record of the group
AzureDSMaps ==
    {[g \in DOMAIN names |-> [ID |-> AzureStoreID(g), Name |-> names[g]]] :
        names \in AzureYunMaps}

AzureSyncRequests ==
    [decodes : BOOLEAN, AccountID : {"a1"}, yunMap : AzureYunMaps, dsMap : AzureDSMaps]

\* getAddCloudIDs: the cloud ids the store has no record of
getAddCloudIDs(yunMap, dsMap) == DOMAIN yunMap \ DOMAIN dsMap

\* getDeleteAndUpdateCloudIDs: the store's ids the cloud no longer lists
getDeleteCloudIDs(yunMap, dsMap) == DOMAIN dsMap \ DOMAIN yunMap

\* getDeleteAndUpdateCloudIDs: the store's ids the cloud still lists
getUpdateCloudIDs(yunMap, dsMap) == DOMAIN dsMap \cap DOMAIN yunMap

\* the two listings SyncAzureSecurityGroup fetches first (azure_security_group.go:200-208)
AzureSyncListCalls == <<"ad.Azure", "client.ListSecurityGroup", "dataCli.ListSecurityGroup">>

\* the phases in the reverse of the order of diffAzureSecurityGroupSync
AzureSyncPhasesAddFirst(deleteCloudIDs, updateCloudIDs, addCloudIDs) ==
    (IF Len(addCloudIDs) > 0
     THEN <<"dataCli.BatchCreateSecurityGroup", "diffAzureSGRuleSyncAdd">> ELSE <<>>)
    \o (IF Len(updateCloudIDs) > 0
        THEN <<"dataCli.BatchUpdateSecurityGroup", "diffAzureSGRuleSyncUpdate">> ELSE <<>>)
    \o (IF Len(deleteCloudIDs) > 0
        THEN <<"diffSecurityGroupSyncDelete", "diffAzureSGRuleSyncDelete">> ELSE <<>>)

\* the calls of diffAzureSecurityGroupSync, in order (azure_security_group.go:254-283)
AzureSyncPhases(deleteCloudIDs, updateCloudIDs, addCloudIDs) ==
    (IF Len(deleteCloudIDs) > 0
     THEN <<"diffSecurityGroupSyncDelete", "diffAzureSGRuleSyncDelete">> ELSE <<>>)
    \o (IF Len(updateCloudIDs) > 0
        THEN <<"dataCli.BatchUpdateSecurityGroup", "diffAzureSGRuleSyncUpdate">> ELSE <<>>)
    \o (IF Len(addCloudIDs) > 0
        THEN <<"dataCli.BatchCreateSecurityGroup", "diffAzureSGRuleSyncAdd">> ELSE <<>>)

\* updateReq.SecurityGroups of diffAzureSecurityGroupSyncUpdate
\* (azure_security_group.go:326-339): the groups whose name differs
AzureSyncUpdateReq(yunMap, dsMap, updateCloudIDs) ==
    LET changed == SelectSeq(updateCloudIDs, LAMBDA g : yunMap[g] # dsMap[g].Name)
    IN [i \in DOMAIN changed |-> [ID |-> dsMap[changed[i]].ID, Name |-> yunMap[changed[i]]]]

\* createReq.SecurityGroups of diffAzureSecurityGroupSyncAdd
\* (azure_security_group.go:292-312)
AzureSyncCreateReq(yunMap, req, addCloudIDs) ==
    [i \in DOMAIN addCloudIDs |->
        [CloudID |-> addCloudIDs[i], Name |-> yunMap[addCloudIDs[i]],
         AccountID |-> req.AccountID]]

\* SyncAzureSecurityGroup (azure_security_group.go:193-216) with the id lists in
\* the order the maps were ranged over
SyncAzureSecurityGroupRun(req, failAt, deleteCloudIDs, updateCloudIDs, addCloudIDs) ==
    LET plan == AzureSyncListCalls
                    \o AzureSyncPhases(deleteCloudIDs, updateCloudIDs, addCloudIDs)
        o == IF ~req.decodes
             THEN AzureOutcome("sync", req, failAt, <<>>, FALSE, "DecodeRequestFailed")
             ELSE AzureCalls("sync", req, failAt, plan)
    IN [op |-> o.op, req |-> o.req, failAt |-> o.failAt, called |-> o.called,
        failed |-> o.failed, ret |-> o.ret,
        updateReq |-> AzureSyncUpdateReq(req.yunMap, req.dsMap, updateCloudIDs),
        createReq |-> AzureSyncCreateReq(req.yunMap, req, addCloudIDs)]

SyncAzureSecurityGroup ==
    /\ az.op = "none"
    /\ \E req \in AzureSyncRequests, failAt \in 0..9 :
          \E deleteCloudIDs \in Perms(getDeleteCloudIDs(req.yunMap, req.dsMap)),
             updateCloudIDs \in Perms(getUpdateCloudIDs(req.yunMap, req.dsMap)),
             addCloudIDs \in Perms(getAddCloudIDs(req.yunMap, req.dsMap)) :
             az' = SyncAzureSecurityGroupRun(req, failAt, deleteCloudIDs, updateCloudIDs,
                                             addCloudIDs)

AzureInit == az = AzureIdle

VARIABLES
    service    \* the service a run exercises

serviceVars == <<service>>

Services == {"region", "gcp", "azure"}

\* the region sync at rest, for the specifications that do not run it
RegionIdle ==
    /\ cloud = [a \in Accounts |-> NoRegions]
    /\ store = {}
    /\ nextID = 1
    /\ pc = [a \in Accounts |-> "idle"]
    /\ passes = [a \in Accounts |-> 0]
    /\ syncOpt = [a \in Accounts |-> SyncRegionOption(a, TRUE)]
    /\ regionFromCloud = [a \in Accounts |-> NoRegions]
    /\ regionFromDB = [a \in Accounts |-> NoRegions]
    /\ start = [a \in Accounts |-> 0]
    /\ addSlice = [a \in Accounts |-> NoRegions]
    /\ updateMap = [a \in Accounts |-> NoUpdates]
    /\ delCloudIDs = [a \in Accounts |-> <<>>]
    /\ elems = [a \in Accounts |-> <<>>]
    /\ result = [a \in Accounts |-> "none"]
    /\ calls = [a \in Accounts |-> <<>>]
    /\ changes = 0
    /\ failures = 0
    /\ failed = [a \in Accounts |-> FALSE]
    /\ curClean = [a \in Accounts |-> FALSE]
    /\ prevClean = [a \in Accounts |-> FALSE]

(***************************************************************************)
(* The specifications: each runs one component and leaves the others at    *)
(* rest.                                                                   *)
(***************************************************************************)
vars == <<regionVars, diffVars, gcpVars, tableVars, azureVars, serviceVars>>

notRegion == <<diffVars, gcpVars, tableVars, azureVars, serviceVars>>
notDiff == <<regionVars, gcpVars, tableVars, azureVars, serviceVars>>
notGcp == <<regionVars, diffVars, tableVars, azureVars, serviceVars>>
notAzure == <<regionVars, diffVars, gcpVars, tableVars, serviceVars>>
notTable == <<regionVars, diffVars, gcpVars, azureVars, serviceVars>>

\* the region sync driver
Init == RegionInit /\ DiffIdle /\ GcpInit /\ TableRest /\ AzureInit /\ service = "region"

Next ==
    \E a \in Accounts :
        \/ StartPass(a) /\ UNCHANGED notRegion
        \/ ValidateOption(a) /\ UNCHANGED notRegion
        \/ ListCloud(a) /\ UNCHANGED notRegion
        \/ ListDB(a) /\ UNCHANGED notRegion
        \/ DiffStep(a) /\ UNCHANGED notRegion
        \/ Recheck(a) /\ UNCHANGED notRegion
        \/ DeleteBatch(a) /\ UNCHANGED notRegion
        \/ CreateRegion(a) /\ UNCHANGED notRegion
        \/ UpdateRegion(a) /\ UNCHANGED notRegion
        \/ CloudChange(a) /\ UNCHANGED notRegion

Spec == Init /\ [][Next]_vars

\* Diff on its own
InitDiff == DiffInit /\ RegionIdle /\ GcpInit /\ TableRest /\ AzureInit /\ service = "region"

NextDiff == DiffApply /\ UNCHANGED notDiff

SpecDiff == InitDiff /\ [][NextDiff]_vars

\* the GCP firewall-rule adaptor
InitGcp == GcpInit /\ AzureInit /\ RegionIdle /\ DiffIdle /\ TableRest /\ service = "gcp"

NextGcp ==
    \/ UpdateFirewallRule /\ UNCHANGED notGcp
    \/ DeleteFirewallRule /\ UNCHANGED notGcp
    \/ ListFirewallRule /\ UNCHANGED notGcp

SpecGcp == InitGcp /\ [][NextGcp]_vars

\* the Azure security-group handlers
InitAzure == AzureInit /\ GcpInit /\ RegionIdle /\ DiffIdle /\ TableRest /\ service = "azure"

NextAzure ==
    \/ CreateAzureSecurityGroup /\ UNCHANGED notAzure
    \/ DeleteAzureSecurityGroup /\ UNCHANGED notAzure
    \/ UpdateAzureSecurityGroup /\ UNCHANGED notAzure
    \/ SyncAzureSecurityGroup /\ UNCHANGED notAzure

SpecAzure == InitAzure /\ [][NextAzure]_vars

\* the region sync driver once the cloud listings have stopped changing, with its
\* passes re-invoked for ever: every account's pass is called again and again, and
\* a pass that has begun goes on to its return
RegionInitLive ==
    /\ RegionInit
    /\ Len(cloud["a1"]) = Cardinality(RegionIDs)
    /\ Len(cloud["a2"]) = 0
    /\ \A r \in RegionIDs : \E rec \in store : rec.AccountID = "a1" /\ rec.RegionID = r
    /\ \A rec \in store : rec.RegionID \in {"r1", "r2"} => rec.RegionName = "n1"

InitLive == RegionInitLive /\ DiffIdle /\ GcpInit /\ TableRest /\ AzureInit /\ service = "region"

\* a step of account a's pass, or a call of Region for a
PassStep(a) ==
    \/ StartPass(a) \/ StartPassAgain(a) \/ ValidateOption(a) \/ ListCloud(a) \/ ListDB(a)
    \/ DiffStep(a) \/ Recheck(a) \/ DeleteBatch(a) \/ CreateRegion(a) \/ UpdateRegion(a)

NextLive ==
    \E a \in Accounts :
        \/ StartPass(a) /\ UNCHANGED notRegion
        \/ StartPassAgain(a) /\ UNCHANGED notRegion
        \/ ValidateOption(a) /\ UNCHANGED notRegion
        \/ ListCloud(a) /\ UNCHANGED notRegion
        \/ ListDB(a) /\ UNCHANGED notRegion
        \/ DiffStep(a) /\ UNCHANGED notRegion
        \/ Recheck(a) /\ UNCHANGED notRegion
        \/ DeleteBatch(a) /\ UNCHANGED notRegion
        \/ CreateRegion(a) /\ UNCHANGED notRegion
        \/ UpdateRegion(a) /\ UNCHANGED notRegion

SpecLive ==
    /\ InitLive
    /\ [][NextLive]_vars
    /\ \A a \in Accounts : WF_vars(PassStep(a) /\ UNCHANGED notRegion)

\* the three services, one of them exercised in a run
InitServices ==
    /\ service \in Services
    /\ IF service = "region" THEN RegionInit ELSE RegionIdle
    /\ DiffIdle /\ GcpInit /\ TableRest /\ AzureInit

NextServices ==
    \/ \E a \in Accounts :
        /\ service = "region"
        /\ \/ StartPass(a) /\ UNCHANGED notRegion
           \/ ValidateOption(a) /\ UNCHANGED notRegion
           \/ ListCloud(a) /\ UNCHANGED notRegion
           \/ ListDB(a) /\ UNCHANGED notRegion
           \/ DiffStep(a) /\ UNCHANGED notRegion
           \/ Recheck(a) /\ UNCHANGED notRegion
           \/ DeleteBatch(a) /\ UNCHANGED notRegion
           \/ CreateRegion(a) /\ UNCHANGED notRegion
           \/ UpdateRegion(a) /\ UNCHANGED notRegion
           \/ CloudChange(a) /\ UNCHANGED notRegion
    \/ /\ service = "gcp"
       /\ \/ UpdateFirewallRule /\ UNCHANGED notGcp
          \/ DeleteFirewallRule /\ UNCHANGED notGcp
          \/ ListFirewallRule /\ UNCHANGED notGcp
    \/ /\ service = "azure"
       /\ \/ CreateAzureSecurityGroup /\ UNCHANGED notAzure
          \/ DeleteAzureSecurityGroup /\ UNCHANGED notAzure
          \/ UpdateAzureSecurityGroup /\ UNCHANGED notAzure
          \/ SyncAzureSecurityGroup /\ UNCHANGED notAzure

SpecServices == InitServices /\ [][NextServices]_vars

\* the SQL statement builder
InitTable == TableInit /\ RegionIdle /\ DiffIdle /\ GcpInit /\ AzureInit /\ service = "region"

NextTable ==
    \/ SQLForInsert /\ UNCHANGED notTable
    \/ FieldKVForUpdate /\ UNCHANGED notTable
    \/ SQLForUpdate /\ UNCHANGED notTable
    \/ SQLForList /\ UNCHANGED notTable
    \/ SQLForDelete /\ UNCHANGED notTable

SpecTable == InitTable /\ [][NextTable]_vars

(***************************************************************************)
(* Properties of Diff.                                                     *)
(***************************************************************************)
IDsOf(l) == {l[i].RegionID : i \in DOMAIN l}

\* the identifiers in each part of the result
CreateIDs == IDsOf(dOut.add)
UpdateIDs == {dOut.update[k].RegionID : k \in DOMAIN dOut.update}
DeleteIDs == dOut.del
\* the identifiers in both views whose region id, name and state agree
UnchangedIDs ==
    {r \in IDsOf(dCloud) \cap IDsOf(dDB) :
        \E i \in DOMAIN dCloud, j \in DOMAIN dDB :
            /\ dCloud[i].RegionID = r /\ dDB[j].RegionID = r
            /\ dCloud[i].RegionName = dDB[j].RegionName
            /\ dCloud[i].RegionState = dDB[j].Status}

\* C1: Diff places every identifier of either view in exactly one of toCreate,
\* toUpdate, toDelete and unchanged; the first three are pairwise disjoint.
C1_DiffPartition ==
    dOut.set =>
        /\ CreateIDs \cup UpdateIDs \cup DeleteIDs \cup UnchangedIDs = IDsOf(dCloud) \cup IDsOf(dDB)
        /\ CreateIDs \cap UpdateIDs = {}
        /\ CreateIDs \cap DeleteIDs = {}
        /\ UpdateIDs \cap DeleteIDs = {}
        /\ UnchangedIDs \cap (CreateIDs \cup UpdateIDs \cup DeleteIDs) = {}

C1_Witness ==
    /\ dOut.set
    /\ CreateIDs # {} /\ UpdateIDs # {} /\ DeleteIDs # {}

\* C2 as stated: the three sets together hold every identifier of either view.
C2_UnionCoversAll ==
    dOut.set => CreateIDs \cup UpdateIDs \cup DeleteIDs = IDsOf(dCloud) \cup IDsOf(dDB)

\* C2, amended: the three sets together hold every identifier of either view
\* except those in both views whose compared fields agree, which are dropped.
C2_UnionCoversChanged ==
    dOut.set =>
        CreateIDs \cup UpdateIDs \cup DeleteIDs = (IDsOf(dCloud) \cup IDsOf(dDB)) \ UnchangedIDs

C2_Witness ==
    /\ dOut.set
    /\ UnchangedIDs # {}
    /\ CreateIDs # {}
    /\ DeleteIDs # {}

\* C3: a cloud record with no store record goes to toCreate; one with a store
\* record goes to toUpdate under that record's surrogate key exactly when region
\* id, name or state differ, and is dropped otherwise; a store identifier no
\* cloud record matches goes to toDeleteCloudIDs.
C3_DiffRule ==
    dOut.set =>
        /\ dOut.add = SelectSeq(dCloud, LAMBDA c : c.RegionID \notin IDsOf(dDB))
        /\ \A i \in DOMAIN dCloud, j \in DOMAIN dDB :
              dCloud[i].RegionID = dDB[j].RegionID =>
                  IF \/ dCloud[i].RegionName # dDB[j].RegionName
                     \/ dCloud[i].RegionState # dDB[j].Status
                  THEN dDB[j].ID \in DOMAIN dOut.update /\ dOut.update[dDB[j].ID] = dCloud[i]
                  ELSE dDB[j].ID \notin DOMAIN dOut.update
        /\ \A k \in DOMAIN dOut.update :
              \E i \in DOMAIN dCloud, j \in DOMAIN dDB :
                  dDB[j].ID = k /\ dCloud[i].RegionID = dDB[j].RegionID
        /\ dOut.del = IDsOf(dDB) \ IDsOf(dCloud)

C3_Witness ==
    /\ dOut.set
    /\ Len(dOut.add) = 1
    /\ dOut.del # {}
    /\ \E i \in DOMAIN dCloud, j \in DOMAIN dDB :
          /\ dCloud[i].RegionID = dDB[j].RegionID
          /\ dCloud[i].RegionName = dDB[j].RegionName
          /\ dCloud[i].RegionState # dDB[j].Status
          /\ dDB[j].ID \in DOMAIN dOut.update

(***************************************************************************)
(* Properties of the region pass.                                          *)
(***************************************************************************)
\* account a's pass took the step
Stepped(a) == pc'[a] # pc[a] \/ calls'[a] # calls[a] \/ start'[a] # start[a]

\* result values that are errors
IsError(r) == r \notin {"none", "ok"}

\* C4: when the second cloud listing holds a delete candidate, the delete phase
\* returns an error without any delete call, the store is as it was, and neither
\* the create nor the update phase runs.
C4_RecheckAborts ==
    /\ [][\A a \in Accounts :
            (/\ pc[a] = "recheck"
             /\ Stepped(a)
             /\ \E i \in DOMAIN cloud[a] : cloud[a][i].RegionID \in Range(delCloudIDs[a]))
            => /\ pc'[a] = "done"
               /\ IsError(result'[a])
               /\ calls'[a] = <<>>
               /\ store' = store]_vars
    /\ [](\A a \in Accounts :
            result[a] = "validate region not exist failed" => pc[a] = "done" /\ calls[a] = <<>>)

C4_Witness ==
    /\ result["a1"] = "validate region not exist failed"
    /\ Len(delCloudIDs["a1"]) = 2
    /\ Cardinality(Range(delCloudIDs["a1"]) \cap IDsOf(cloud["a1"])) = 1
    /\ Len(addSlice["a1"]) > 0
    /\ Range(delCloudIDs["a1"]) \subseteq {r.RegionID : r \in StoreOf(store, "a1")}

\* the two fetched views hold the same identifiers with equal name and state
SameViews(cl, db) ==
    /\ IDsOf(cl) = IDsOf(db)
    /\ \A i \in DOMAIN cl, j \in DOMAIN db :
          cl[i].RegionID = db[j].RegionID =>
              cl[i].RegionName = db[j].RegionName /\ cl[i].RegionState = db[j].Status

\* C5: when the diff is empty on all three axes (so when both views are empty, and
\* when they hold the same identifiers with equal compared fields) the pass returns
\* success and issues no create, update or delete call.
C5_EmptyDiffNoWrites ==
    [][\A a \in Accounts :
          (/\ pc[a] = "diff"
           /\ Stepped(a)
           /\ \/ Len(addSlice'[a]) = 0 /\ DOMAIN updateMap'[a] = {} /\ Len(delCloudIDs'[a]) = 0
              \/ SameViews(regionFromCloud[a], regionFromDB[a]))
          => /\ pc'[a] = "done"
             /\ result'[a] = "ok"
             /\ calls'[a] = <<>>
             /\ store' = store]_vars

C5_Witness ==
    /\ pc["a1"] = "done"
    /\ result["a1"] = "ok"
    /\ calls["a1"] = <<>>
    /\ Len(regionFromCloud["a1"]) = 2
    /\ SameViews(regionFromCloud["a1"], regionFromDB["a1"])

\* C6: a pass that follows a successful pass, with no change to the account's
\* cloud listing and no outside change to its store view since that pass began,
\* computes an empty diff and issues no create, update or delete call.
C6_SecondPassIdle ==
    \A a \in Accounts :
        prevClean[a] =>
            /\ calls[a] = <<>>
            /\ Len(addSlice[a]) = 0 /\ DOMAIN updateMap[a] = {} /\ Len(delCloudIDs[a]) = 0
            /\ pc[a] \notin {"recheck", "delete", "create", "update"}

C6_Witness ==
    /\ prevClean["a1"]
    /\ pc["a1"] = "done"
    /\ result["a1"] = "ok"
    /\ passes["a2"] = 0
    /\ Len(regionFromCloud["a1"]) = 2
    /\ passes["a1"] = 2
    /\ nextID > Cardinality(store) + 1

\* the error Region returns when the call made at pc fails
ErrorOf(at) ==
    CASE at = "listCloud" -> "cloud list failed"
      [] at = "listDB" -> "db list failed"
      [] at = "recheck" -> "cloud list failed"
      [] at = "delete" -> "delete failed"
      [] at = "create" -> "create failed"
      [] OTHER -> "update failed"

\* C7: a failing call makes Region return that call's error at once; the pass
\* issues no store write after it, and the writes it had applied stay applied.
C7_FailFast ==
    [][\A a \in Accounts :
          /\ (failed'[a] /\ ~failed[a])
                => /\ pc'[a] = "done"
                   /\ result'[a] = ErrorOf(pc[a])
                   /\ store' = store
                   /\ \A i \in DOMAIN calls[a] : calls'[a][i] = calls[a][i]
          /\ (pc[a] = "done" /\ pc'[a] = "done")
                => /\ calls'[a] = calls[a]
                   /\ result'[a] = result[a]]_vars

C7_Witness ==
    /\ result["a1"] = "delete failed"
    /\ Len(calls["a1"]) = 2
    /\ calls["a1"][1].ok
    /\ ~calls["a1"][2].ok
    /\ passes["a2"] = 0
    /\ \A r \in StoreOf(store, "a1") : r.RegionID \notin Range(calls["a1"][1].arg)
    /\ \E r \in StoreOf(store, "a1") : r.RegionID \in Range(calls["a1"][2].arg)

\* C9 as stated: a store write of account a's pass leaves the records of every
\* other account as they were.
C9_ScopesIndependent ==
    [][\A a \in Accounts, b \in Accounts :
          (a # b /\ Len(calls'[a]) > Len(calls[a]))
              => StoreOf(store', b) = StoreOf(store, b)]_vars

\* the calls of account a's pass with operation op, in order
CallsOf(a, op) == SelectSeq(calls[a], LAMBDA c : c.op = op)

\* the batches of the delete calls of account a's pass, in order
DeleteBatches(a) == [i \in DOMAIN CallsOf(a, "delete") |-> CallsOf(a, "delete")[i].arg]

RECURSIVE Flatten(_)
Flatten(ll) == IF Len(ll) = 0 THEN <<>> ELSE Head(ll) \o Flatten(Tail(ll))

CeilDiv(n, m) == (n + m - 1) \div m

\* the delete phase of a's pass issued every batch and none failed
DeletePhaseDone(a) ==
    /\ Len(CallsOf(a, "delete")) > 0
    /\ pc[a] # "delete"
    /\ \A i \in DOMAIN CallsOf(a, "delete") : CallsOf(a, "delete")[i].ok

\* C11: once the re-check has passed, the delete phase issues ceil(n / max) delete
\* calls for its n candidates; every batch holds at most max identifiers and every
\* batch but the last exactly max; the batches, in order, concatenate to the
\* candidate list, so that no identifier is lost or repeated.
C11_BatchSplitting ==
    \A a \in Accounts :
        LET batches == DeleteBatches(a)
            n == Len(delCloudIDs[a])
            all == Flatten(batches)
        IN /\ \A i \in DOMAIN batches :
                 /\ Len(batches[i]) >= 1
                 /\ Len(batches[i]) <= CloudResourceSyncMaxLimit
                 /\ i < CeilDiv(n, CloudResourceSyncMaxLimit)
                       => Len(batches[i]) = CloudResourceSyncMaxLimit
           /\ Len(batches) <= CeilDiv(n, CloudResourceSyncMaxLimit)
           /\ \A i, j \in DOMAIN all : all[i] = all[j] => i = j
           /\ all = SubSeq(delCloudIDs[a], 1, Len(all))
           /\ pc[a] = "delete" => all \o Flatten(elems[a]) = delCloudIDs[a]
           /\ DeletePhaseDone(a) =>
                 /\ Len(batches) = CeilDiv(n, CloudResourceSyncMaxLimit)
                 /\ all = delCloudIDs[a]

C11_Witness ==
    /\ DeletePhaseDone("a1")
    /\ result["a1"] = "ok"
    /\ Len(delCloudIDs["a1"]) = CloudResourceSyncMaxLimit + 1
    /\ Len(DeleteBatches("a1")) = 2
    /\ Len(DeleteBatches("a1")[1]) = CloudResourceSyncMaxLimit
    /\ Len(DeleteBatches("a1")[2]) = 1

\* the records of account a that listRegionFromDB's filter selects, by surrogate key
StoreListing(a) ==
    LET hit == {r \in store : FilterMatch(r, ListFilter(a))}
    IN SetToSeqBy(hit, [r \in hit |-> r.ID])

\* the page requests listRegionFromDB has issued once it has returned: one per
\* offset 0, limit, 2 limit, ..., start
PageRequests(a) == start[a] \div DefaultMaxPageLimit + 1

\* C12: while nothing else writes the account's records, listRegionFromDB asks for
\* the offsets 0, p, 2p, ... and stops at the first page shorter than p: it has read
\* the first start records so far, and once it returns it has issued floor(n/p)+1
\* page requests and holds exactly the n records, in the store's order.
C12_PaginatedRead ==
    \A a \in Accounts :
        LET all == StoreListing(a)
            n == Len(all)
        IN /\ (pc[a] = "listDB" /\ curClean[a]) =>
                 /\ start[a] % DefaultMaxPageLimit = 0
                 /\ start[a] <= n
                 /\ regionFromDB[a] = SubSeq(all, 1, start[a])
           /\ (pc[a] = "diff" /\ curClean[a]) =>
                 /\ regionFromDB[a] = all
                 /\ start[a] = DefaultMaxPageLimit * (n \div DefaultMaxPageLimit)
                 /\ PageRequests(a) = n \div DefaultMaxPageLimit + 1

C12_Witness ==
    /\ pc["a1"] = "diff"
    /\ curClean["a1"]
    /\ Len(regionFromDB["a1"]) = DefaultMaxPageLimit
    /\ PageRequests("a1") = 2
    /\ Cardinality(store) > DefaultMaxPageLimit

\* C19: a pass issues at most one create call and at most one update call, and
\* exactly one of each when toCreate or toUpdate is non-empty and the pass succeeds;
\* the create call holds one record per toCreate entry, with the pass's account id
\* and the cloud record's fields; the update call holds one record per surrogate
\* key of toUpdate, with that key's cloud record's fields.
C19_OneBatchedCall ==
    \A a \in Accounts :
        LET creates == CallsOf(a, "create")
            updates == CallsOf(a, "update")
        IN /\ Len(creates) <= 1
           /\ Len(updates) <= 1
           /\ \A c \in DOMAIN creates :
                 /\ Len(addSlice[a]) > 0
                 /\ DOMAIN creates[c].arg = DOMAIN addSlice[a]
                 /\ \A i \in DOMAIN addSlice[a] :
                       creates[c].arg[i] =
                           [Vendor |-> Aws, AccountID |-> a,
                            RegionID |-> addSlice[a][i].RegionID,
                            RegionName |-> addSlice[a][i].RegionName,
                            Status |-> addSlice[a][i].RegionState,
                            Endpoint |-> addSlice[a][i].Endpoint]
           /\ \A u \in DOMAIN updates :
                 /\ DOMAIN updateMap[a] # {}
                 /\ Len(updates[u].arg) = Cardinality(DOMAIN updateMap[a])
                 /\ {updates[u].arg[i].ID : i \in DOMAIN updates[u].arg} = DOMAIN updateMap[a]
                 /\ \A i \in DOMAIN updates[u].arg :
                       LET key == updates[u].arg[i].ID
                       IN updates[u].arg[i] =
                              [ID |-> key, AccountID |-> a,
                               RegionID |-> updateMap[a][key].RegionID,
                               RegionName |-> updateMap[a][key].RegionName,
                               Status |-> updateMap[a][key].RegionState,
                               Endpoint |-> updateMap[a][key].Endpoint]
           /\ (pc[a] = "done" /\ result[a] = "ok") =>
                 /\ Len(addSlice[a]) > 0 => Len(creates) = 1
                 /\ DOMAIN updateMap[a] # {} => Len(updates) = 1

C19_Witness ==
    /\ pc["a1"] = "done"
    /\ result["a1"] = "ok"
    /\ Len(CallsOf("a1", "create")) = 1
    /\ Len(CallsOf("a1", "create")[1].arg) = 2
    /\ Len(CallsOf("a1", "update")) = 1

\* C20: no step of the delete loop looks at the cloud again: a successful delete
\* statement removes every record of its batch, also a record whose region the
\* cloud lists again by the time the statement runs.
C20_DeleteIgnoresCloud ==
    [][\A a \in Accounts :
          (/\ pc[a] = "delete"
           /\ Len(calls'[a]) > Len(calls[a])
           /\ calls'[a][Len(calls'[a])].ok)
          => \A r \in store : r.RegionID \in Range(Head(elems[a])) => r \notin store']_vars

\* a delete candidate was absent from both cloud listings of the pass, is in the
\* cloud again before the single delete statement ran, and its record is gone
C20_Witness ==
    \E r \in RegionIDs :
        /\ pc["a1"] \in {"create", "update"}
        /\ Len(delCloudIDs["a1"]) <= CloudResourceSyncMaxLimit
        /\ r \in Range(delCloudIDs["a1"])
        /\ r \notin IDsOf(regionFromCloud["a1"])
        /\ r \in IDsOf(cloud["a1"])
        /\ Len(calls["a1"]) = 1
        /\ calls["a1"][1].op = "delete" /\ calls["a1"][1].ok
        /\ r \in Range(calls["a1"][1].arg)
        /\ \A s \in store : s.RegionID # r

\* the store view of account a holds exactly the cloud listing's identifiers, and
\* every record of it agrees with the cloud record of its region in name and state
Converged(a) ==
    /\ {r.RegionID : r \in StoreOf(store, a)} = IDsOf(cloud[a])
    /\ \A r \in StoreOf(store, a) : \A i \in DOMAIN cloud[a] :
          cloud[a][i].RegionID = r.RegionID =>
              cloud[a][i].RegionName = r.RegionName /\ cloud[a][i].RegionState = r.Status

RegionPhase(op) == CASE op = "delete" -> 1 [] op = "create" -> 2 [] OTHER -> 3

\* the place of a call of the Azure sync in the order of its phases
AzurePhase(call) ==
    CASE call \in {"diffSecurityGroupSyncDelete", "diffAzureSGRuleSyncDelete"} -> 1
      [] call \in {"dataCli.BatchUpdateSecurityGroup", "diffAzureSGRuleSyncUpdate"} -> 2
      [] call \in {"dataCli.BatchCreateSecurityGroup", "diffAzureSGRuleSyncAdd"} -> 3
      [] OTHER -> 0

\* C13: the region pass issues its store writes in the order delete, create,
\* update, and the Azure security-group sync its calls in the order delete,
\* update, create; a call is made only after every earlier call has succeeded,
\* and a phase starts only after the phases before it have finished.
C13_PhaseOrder ==
    /\ \A a \in Accounts :
          /\ \A i, j \in DOMAIN calls[a] :
                i < j => /\ RegionPhase(calls[a][i].op) <= RegionPhase(calls[a][j].op)
                         /\ calls[a][i].ok
          /\ pc[a] \in {"create", "update"} =>
                /\ \A i \in DOMAIN calls[a] : calls[a][i].ok
                /\ Len(delCloudIDs[a]) > 0 => Flatten(DeleteBatches(a)) = delCloudIDs[a]
          /\ pc[a] = "update" => (Len(addSlice[a]) > 0 => Len(CallsOf(a, "create")) = 1)
    /\ az.op = "sync" =>
          /\ \A i, j \in DOMAIN az.called :
                i < j => AzurePhase(az.called[i]) <= AzurePhase(az.called[j])
          /\ az.failed => az.failAt = Len(az.called)
          /\ (~az.failed /\ az.req.decodes) =>
                /\ (DOMAIN az.req.dsMap \ DOMAIN az.req.yunMap # {}) =>
                      \E i \in DOMAIN az.called : AzurePhase(az.called[i]) = 1
                /\ (DOMAIN az.req.dsMap \cap DOMAIN az.req.yunMap # {}) =>
                      \E i \in DOMAIN az.called : AzurePhase(az.called[i]) = 2
                /\ (DOMAIN az.req.yunMap \ DOMAIN az.req.dsMap # {}) =>
                      \E i \in DOMAIN az.called : AzurePhase(az.called[i]) = 3

C13_Witness ==
    /\ az.op = "sync"
    /\ az.failed
    /\ Len(az.called) = 8
    /\ AzurePhase(az.called[4]) = 1
    /\ AzurePhase(az.called[6]) = 2
    /\ AzurePhase(az.called[8]) = 3

\* C15: an invalid-parameter input is rejected before any call to a collaborator:
\* Region with an option that fails validation, the GCP firewall-rule methods with
\* a nil or invalid option, and the Azure delete and update handlers with an empty
\* id return InvalidParameter, having called neither the cloud adaptor nor the store.
C15_InvalidBeforeCalls ==
    /\ \A a \in Accounts :
          (~syncOpt[a].valid /\ pc[a] # "validate") =>
              /\ pc[a] = "done"
              /\ result[a] = "InvalidParameter"
              /\ calls[a] = <<>>
              /\ ~failed[a]
              /\ regionFromCloud[a] = NoRegions
              /\ regionFromDB[a] = NoRegions
              /\ start[a] = 0
    /\ (gcp.op # "none" /\ (gcp.opt.nil \/ ~gcp.opt.valid)) =>
          /\ gcp.ret = "InvalidParameter"
          /\ gcp.called = <<>>
    /\ (az.op \in {"delete", "update"} /\ Len(az.req.id) = 0) =>
          /\ az.ret = "InvalidParameter"
          /\ az.called = <<>>

C15_Witness ==
    /\ ~syncOpt["a1"].valid
    /\ pc["a1"] = "done"
    /\ result["a1"] = "InvalidParameter"
    /\ passes["a1"] = 2
    /\ store # {}
    /\ cloud["a1"] # NoRegions

(***************************************************************************)
(* Properties of the adaptors and of the statement builder.                *)
(***************************************************************************)
\* C8 as stated: an operation in which a call to a collaborator failed returns
\* an error; for the region pass, the Azure security-group handlers and the GCP
\* adaptor's methods.
C8_NoErrorSwallowed ==
    /\ \A a \in Accounts : (pc[a] = "done" /\ failed[a]) => IsError(result[a])
    /\ (az.op # "none" /\ az.failed) => az.ret # "nil"
    /\ (gcp.op # "none" /\ gcp.failed) => gcp.ret # "nil"

\* C10 as stated: building a statement whose declared InsertFields or
\* UpdateFields hold a name that is no db tag of the record type panics.
C10_UndeclaredFieldPanics ==
    /\ (tOut.op = "insert" /\ \E i \in DOMAIN tInsertFields :
                                  tInsertFields[i] \notin Range(tType.fields))
          => tOut.panic
    /\ (tOut.op \in {"kv", "update"} /\ ~tOut.err
           /\ \E i \in DOMAIN tUpdateFields : tUpdateFields[i] \notin Range(tType.fields))
          => tOut.panic

\* the columns SQLForInsert is to list: the declared InsertFields, or the whole
\* schema when none is declared, without id
InsertColumns ==
    SelectSeq(IF Len(tInsertFields) = 0 THEN tType.fields ELSE tInsertFields,
              LAMBDA f : f # "id")

\* C16 as stated: the SET clause of SQLForUpdate's statement assigns through a
\* named placeholder exactly the declared UpdateFields other than updated_at, holds
\* updated_at = now() exactly when the schema has that column, is exactly that
\* assignment when no update field is declared, and is never empty.
C16_SetClause ==
    (tOut.op = "update" /\ ~tOut.err /\ ~tOut.panic) =>
        LET declared == Range(tUpdateFields) \ {updateTimeField}
            stamp == IF updateTimeField \in Range(tType.fields)
                     THEN {updateTimeField \o " = now()"} ELSE {}
        IN /\ Range(tOut.set) = {f \o " = :" \o f : f \in declared} \cup stamp
           /\ Len(tOut.set) = Cardinality(declared) + Cardinality(stamp)
           /\ tOut.sql = "UPDATE " \o tType.name \o " set " \o Join(tOut.set, ", ")
                             \o " " \o tWhere.sql
           /\ Len(tUpdateFields) = 0 => tOut.set = <<updateTimeField \o " = now()">>
           /\ Len(tOut.set) > 0

\* C17: the statement of SQLForInsert lists the declared InsertFields in their
\* order, or the whole schema in declaration order when none is declared, in both
\* cases without id, and its VALUES list holds the placeholder ':column' of each
\* listed column in the same order.
C17_InsertColumns ==
    (tOut.op = "insert" /\ ~tOut.panic) =>
        /\ tOut.cols = InsertColumns
        /\ "id" \notin Range(tOut.cols)
        /\ tOut.sql = "INSERT INTO " \o tType.name \o " (" \o Join(InsertColumns, ", ")
                          \o ") VALUES ("
                          \o Join([i \in DOMAIN InsertColumns |-> ":" \o InsertColumns[i]], ", ")
                          \o ")"

C17_Witness ==
    /\ tOut.op = "insert"
    /\ tInsertFields = <<"memo", "id">>
    /\ tOut.sql = "INSERT INTO region (memo) VALUES (:memo)"

\* C18 as stated: every column name a built statement holds as text is a db tag
\* of the record type, for the four builders.
C18_OnlyAllowListed ==
    (tOut.op \in {"insert", "update", "list", "delete"} /\ ~tOut.err /\ ~tOut.panic) =>
        Range(tOut.cols) \subseteq Range(tType.fields)

(***************************************************************************)
(* Properties of the Azure security-group sync and handlers.               *)
(***************************************************************************)
\* C21 as stated: when the sync finds groups in both views and each of them has
\* the same name in the cloud view and in the store view, the update phase sends
\* no update request to the store.
C21_NoSpuriousUpdate ==
    (/\ az.op = "sync"
     /\ az.req.decodes
     /\ getUpdateCloudIDs(az.req.yunMap, az.req.dsMap) # {}
     /\ \A g \in getUpdateCloudIDs(az.req.yunMap, az.req.dsMap) :
            az.req.yunMap[g] = az.req.dsMap[g].Name)
        => "dataCli.BatchUpdateSecurityGroup" \notin Range(az.called)

\* the cloud call of a handler (azure_security_group.go:54, 112, 164)
AzureCloudCall(op) ==
    CASE op = "create" -> "client.CreateSecurityGroup"
      [] op = "delete" -> "client.DeleteSecurityGroup"
      [] OTHER -> "client.UpdateSecurityGroup"

\* the store write of a handler (azure_security_group.go:78, 122, 180)
AzureStoreCall(op) ==
    CASE op = "create" -> "dataCli.BatchCreateSecurityGroup"
      [] op = "delete" -> "dataCli.BatchDeleteSecurityGroup"
      [] OTHER -> "dataCli.BatchUpdateSecurityGroup"

\* the handler made call c
AzureSent(c) == c \in Range(az.called)

\* the handler made call c and it returned no error
AzureSucceeded(c) ==
    \E i \in DOMAIN az.called : az.called[i] = c /\ ~(az.failed /\ i = Len(az.called))

\* C22: in the create, delete and update-with-name handlers the store write is
\* sent only after the cloud call has succeeded, and a failed cloud call ends the
\* handler with that error and no store write; an update request with an empty name
\* makes no cloud call and still sends the store update.
C22_StoreAfterCloud ==
    az.op \in {"create", "delete", "update"} =>
        LET cloudCall == AzureCloudCall(az.op)
            storeCall == AzureStoreCall(az.op)
            ran == az.called # <<>>
            withCloud == az.op # "update" \/ Len(az.req.Name) # 0
        IN /\ (withCloud /\ AzureSent(storeCall)) =>
                  /\ AzureSucceeded(cloudCall)
                  /\ \A i, j \in DOMAIN az.called :
                        (az.called[i] = cloudCall /\ az.called[j] = storeCall) => i < j
           /\ (withCloud /\ AzureSent(cloudCall) /\ ~AzureSucceeded(cloudCall)) =>
                  /\ az.ret = cloudCall \o " failed"
                  /\ ~AzureSent(storeCall)
           /\ (az.op = "update" /\ ran /\ Len(az.req.Name) = 0) =>
                  /\ ~AzureSent(cloudCall)
                  /\ AzureSent(storeCall)

\* the rename of the group fails in the cloud: the update handler returns the
\* error and has sent nothing to the store
C22_Witness ==
    /\ az.op = "update"
    /\ Len(az.req.Name) # 0
    /\ az.failed
    /\ az.called = <<"dataCli.GetSecurityGroup", "ad.Azure", "client.UpdateSecurityGroup">>
    /\ az.ret = "client.UpdateSecurityGroup failed"

(***************************************************************************)
(* Properties of the patch UpdateFirewallRule sends.                       *)
(***************************************************************************)
\* the request slice that corresponds element by element to the option's rules,
\* left unset when the option has none
GcpExpectedSlice(rules) ==
    IF Len(rules) = 0 THEN GcpNilSlice
    ELSE GcpSlice([i \in DOMAIN rules |->
                      [IPProtocol |-> rules[i].Protocol, Ports |-> rules[i].Port]])

\* C23 as stated: the patch UpdateFirewallRule sends has a Denied list that
\* corresponds element by element (protocol and ports, same length and order) to
\* the option's Denied list and an Allowed list that corresponds so to the option's
\* Allowed list; a list that is empty in the option is left unset in the patch.
C23_PatchMatchesOption ==
    (gcp.op = "update" /\ "Firewalls.Patch" \in Range(gcp.called)) =>
        /\ gcp.request.Allowed = GcpExpectedSlice(gcp.opt.Allowed)
        /\ gcp.request.Denied = GcpExpectedSlice(gcp.opt.Denied)

====
